---- MODULE Spec2Model ----
(***************************************************************************)
(* Model of hum-embedding-service/main.py: a FastAPI service holding a     *)
(* lazily loaded Wav2Vec2 processor/encoder pair in two module globals,    *)
(* with a startup hook, GET /health and POST /embed.                       *)
(*                                                                         *)
(* Scheduling.  startup() and load_model() are plain functions and embed() *)
(* is a coroutine whose only suspension point is `await audio.read()`.     *)
(* Everything a coroutine does between two suspension points runs without *)
(* interleaving on the event loop, so embed() is two steps: EmbedBegin     *)
(* (the load_model() call, up to the await) and EmbedResume (from the      *)
(* result of the read to the response).  The startup hook runs before the  *)
(* first request when the server drives the lifespan, and not at all when  *)
(* it does not; an exception escaping the hook aborts the server.          *)
(* An exception escaping embed() is answered with status 500.              *)
(***************************************************************************)
EXTENDS Integers, Sequences, FiniteSets, TLC

\* ---- bounds of the model ----
NumReq == 2
MaxHealth == 2

\* ---- program constants ----
TARGET_SR == 16000
EMBEDDING_DIM == 768
MIN_BYTES == 1000
MIN_SAMPLES == 1600
\* hidden size of facebook/wav2vec2-base: last_hidden_state is (1, seq, 768)
HIDDEN_SIZE == 768

None == 0
Unset == -1
Requests == 1..NumReq

\* ---- inputs ----
\* byte lengths of the uploads that are read
RawLens == {0, MIN_BYTES - 1, MIN_BYTES, MIN_BYTES + 1}
\* what the bytes decode to: <<native sample rate, frames>>
Decodes == {<<16000, 0>>, <<16000, 1599>>, <<16000, 1600>>,
            <<44100, 4407>>, <<44100, 4410>>, <<44100, 8820>>}
\* time steps the encoder produces
SeqLens == {1, 4}
InferOutcomes == {"ok", "preprocess_error", "forward_error"}

VARIABLES alive, startupRan, processor, model, procLoads, encLoads,
          loadFailed, healthCalls, healthResp, req

vars == <<alive, startupRan, processor, model, procLoads, encLoads,
          loadFailed, healthCalls, healthResp, req>>

\* ---- load_model ----
\* pOk / mOk: whether the two from_pretrained calls succeed.  A handle is the
\* ordinal of the load that produced it, so a reload yields a new handle.
load_model_noguard(p, m, pl, el, pOk, mOk) ==
  IF ~pOk THEN [processor |-> p, model |-> m, procLoads |-> pl,
                encLoads |-> el, raised |-> TRUE]
  ELSE IF ~mOk THEN [processor |-> pl + 1, model |-> m, procLoads |-> pl + 1,
                     encLoads |-> el, raised |-> TRUE]
  ELSE [processor |-> pl + 1, model |-> el + 1, procLoads |-> pl + 1,
        encLoads |-> el + 1, raised |-> FALSE]

load_model_swapped(p, m, pl, el, pOk, mOk) ==
  IF m # None
  THEN [processor |-> p, model |-> m, procLoads |-> pl, encLoads |-> el,
        raised |-> FALSE]
  ELSE IF ~mOk THEN [processor |-> p, model |-> m, procLoads |-> pl,
                     encLoads |-> el, raised |-> TRUE]
  ELSE IF ~pOk THEN [processor |-> p, model |-> el + 1, procLoads |-> pl,
                     encLoads |-> el + 1, raised |-> TRUE]
  ELSE [processor |-> pl + 1, model |-> el + 1, procLoads |-> pl + 1,
        encLoads |-> el + 1, raised |-> FALSE]

load_model(p, m, pl, el, pOk, mOk) ==
  IF m # None
  THEN [processor |-> p, model |-> m, procLoads |-> pl, encLoads |-> el,
        raised |-> FALSE]
  ELSE IF ~pOk THEN [processor |-> p, model |-> m, procLoads |-> pl,
                     encLoads |-> el, raised |-> TRUE]
  ELSE IF ~mOk THEN [processor |-> pl + 1, model |-> m, procLoads |-> pl + 1,
                     encLoads |-> el, raised |-> TRUE]
  ELSE [processor |-> pl + 1, model |-> el + 1, procLoads |-> pl + 1,
        encLoads |-> el + 1, raised |-> FALSE]

\* ---- the request record ----
IdleReq == [pc |-> "idle", status |-> 0, detail |-> "", rawLen |-> Unset,
            decoded |-> FALSE, origSr |-> Unset, samples |-> Unset,
            inferred |-> FALSE, usedProcessor |-> None, usedModel |-> None,
            encCalls |-> 0, vecLen |-> Unset, dim |-> Unset]

\* an exception nobody catches in the handler
Uncaught(q) == [q EXCEPT !.pc = "done", !.status = 500,
                         !.detail = "Internal Server Error"]

HTTPException(q, code, text) ==
  [q EXCEPT !.pc = "done", !.status = code, !.detail = text]

\* ---- pure steps of embed ----
TooShortRaw_le(n) == n <= MIN_BYTES

TooShortRaw(n) == n < MIN_BYTES

TooShortDecoded_le(len) == len <= MIN_SAMPLES

TooShortDecoded(len) == len < MIN_SAMPLES

\* librosa.load(sr=TARGET_SR): resampling yields ceil(frames * target / native)
Resample(sr, frames) ==
  IF sr = TARGET_SR THEN frames
  ELSE (frames * TARGET_SR + sr - 1) \div sr

\* shapes as tuples of dimensions
RemoveAt(shape, i) ==
  [k \in 1..(Len(shape) - 1) |-> IF k < i THEN shape[k] ELSE shape[k + 1]]

\* tensor.mean(dim=d): d is 0-based
Mean(shape, d) == RemoveAt(shape, d + 1)

\* tensor.squeeze(d): drops the dimension when it is 1
Squeeze(shape, d) == IF shape[d + 1] = 1 THEN RemoveAt(shape, d + 1) ELSE shape

PoolWrongAxis(hidden) == Squeeze(Mean(hidden, 2), 0)

Pool(hidden) == Squeeze(Mean(hidden, 1), 0)

\* len(tensor.tolist())
ListLen(shape) == shape[1]

InvalidAudio_uncaught(q) == Uncaught(q)

InvalidAudio(q) == HTTPException(q, 400, "Invalid audio")

InferenceRetried(q, outcome, seq) ==
  IF q.usedProcessor = None \/ outcome = "preprocess_error"
  THEN Uncaught(q)
  ELSE IF q.usedModel = None THEN Uncaught(q)
  ELSE IF outcome = "forward_error"
  THEN HTTPException([q EXCEPT !.encCalls = 2], 400, "Inference failed")
  ELSE LET vec == ListLen(Pool(<<1, seq, HIDDEN_SIZE>>))
       IN [q EXCEPT !.pc = "done", !.status = 200, !.encCalls = 1,
                    !.vecLen = vec, !.dim = vec]

\* the torch.no_grad() block and the return
Inference(q, outcome, seq) ==
  IF q.usedProcessor = None \/ outcome = "preprocess_error"
  THEN Uncaught(q)
  ELSE IF q.usedModel = None THEN Uncaught(q)
  ELSE IF outcome = "forward_error"
  THEN Uncaught([q EXCEPT !.encCalls = 1])
  ELSE LET vec == ListLen(Pool(<<1, seq, HIDDEN_SIZE>>))
       IN [q EXCEPT !.pc = "done", !.status = 200, !.encCalls = 1,
                    !.vecLen = vec, !.dim = vec]

\* embed() from the result of the read to the response
EmbedBody(q, readOk, n, decOk, dec, outcome, seq, p, m) ==
  IF ~readOk THEN HTTPException(q, 400, "Failed to read upload")
  ELSE LET q1 == [q EXCEPT !.rawLen = n] IN
  IF TooShortRaw(n) THEN HTTPException(q1, 400, "Audio file too short")
  ELSE LET q2 == [q1 EXCEPT !.decoded = TRUE] IN
  IF ~decOk THEN InvalidAudio(q2)
  ELSE LET q3 == [q2 EXCEPT !.origSr = dec[1],
                            !.samples = Resample(dec[1], dec[2])] IN
  IF TooShortDecoded(q3.samples)
  THEN HTTPException(q3, 400, "Audio too short after load")
  ELSE Inference([q3 EXCEPT !.inferred = TRUE, !.usedProcessor = p,
                            !.usedModel = m], outcome, seq)

\* ---- state machine ----
Init ==
  /\ alive = TRUE
  /\ startupRan = FALSE
  /\ processor = None
  /\ model = None
  /\ procLoads = 0
  /\ encLoads = 0
  /\ loadFailed = FALSE
  /\ healthCalls = 0
  /\ healthResp = [status |-> "", embedding_dim |-> Unset]
  /\ req = [r \in Requests |-> IdleReq]

Startup ==
  /\ alive
  /\ ~startupRan
  /\ \A r \in Requests : req[r].pc = "idle"
  /\ \E pOk \in BOOLEAN, mOk \in BOOLEAN :
       LET l == load_model(processor, model, procLoads, encLoads, pOk, mOk) IN
       /\ processor' = l.processor
       /\ model' = l.model
       /\ procLoads' = l.procLoads
       /\ encLoads' = l.encLoads
       /\ loadFailed' = (loadFailed \/ l.raised)
       /\ alive' = ~l.raised
  /\ startupRan' = TRUE
  /\ UNCHANGED <<healthCalls, healthResp, req>>

HealthLoads ==
  /\ alive
  /\ healthCalls < MaxHealth
  /\ healthCalls' = healthCalls + 1
  /\ LET l == load_model(processor, model, procLoads, encLoads, TRUE, TRUE) IN
       /\ processor' = l.processor
       /\ model' = l.model
       /\ procLoads' = l.procLoads
       /\ encLoads' = l.encLoads
  /\ healthResp' = [status |-> "ok", embedding_dim |-> EMBEDDING_DIM]
  /\ UNCHANGED <<alive, startupRan, loadFailed, req>>

Health ==
  /\ alive
  /\ healthCalls < MaxHealth
  /\ healthCalls' = healthCalls + 1
  /\ healthResp' = [status |-> "ok", embedding_dim |-> EMBEDDING_DIM]
  /\ UNCHANGED <<alive, startupRan, processor, model, procLoads, encLoads,
                 loadFailed, req>>

EmbedBegin(r) ==
  /\ alive
  /\ req[r].pc = "idle"
  /\ \E pOk \in BOOLEAN, mOk \in BOOLEAN :
       LET l == load_model(processor, model, procLoads, encLoads, pOk, mOk) IN
       /\ processor' = l.processor
       /\ model' = l.model
       /\ procLoads' = l.procLoads
       /\ encLoads' = l.encLoads
       /\ loadFailed' = (loadFailed \/ l.raised)
       /\ req' = [req EXCEPT ![r] = IF l.raised THEN Uncaught(@)
                                    ELSE [@ EXCEPT !.pc = "reading"]]
  /\ UNCHANGED <<alive, startupRan, healthCalls, healthResp>>

EmbedResume(r) ==
  /\ alive
  /\ req[r].pc = "reading"
  /\ \E readOk \in BOOLEAN, n \in RawLens, decOk \in BOOLEAN, dec \in Decodes,
        outcome \in InferOutcomes, seq \in SeqLens :
       req' = [req EXCEPT ![r] = EmbedBody(@, readOk, n, decOk, dec, outcome,
                                           seq, processor, model)]
  /\ UNCHANGED <<alive, startupRan, processor, model, procLoads, encLoads,
                 loadFailed, healthCalls, healthResp>>

Next ==
  \/ Startup
  \/ Health
  \/ \E r \in Requests : EmbedBegin(r)
  \/ \E r \in Requests : EmbedResume(r)

Spec == Init /\ [][Next]_vars

\* ---- properties ----

\* C1: the processor and the encoder are each loaded at most once in total,
\* whatever the order of the startup hook and the early /embed requests.
C1_LoadedAtMostOnce == procLoads <= 1 /\ encLoads <= 1

\* C2: once the model handle is set, no step unsets it, replaces it or
\* replaces the processor, and no step loads anything again: every
\* load_model() call made in Ready is a no-op.
C2_OneWay ==
  [][model # None =>
       /\ model' = model
       /\ processor' = processor
       /\ procLoads' = procLoads
       /\ encLoads' = encLoads]_vars

\* a load_model() call was made in Ready: the startup hook loaded the model
\* and a request entered embed() afterwards
C2_Witness ==
  /\ startupRan /\ alive /\ model # None
  /\ \E r \in Requests : req[r].pc # "idle"

\* C3: once a load of the processor or of the encoder has failed, the service
\* never becomes Ready and no /embed request is answered with 200.
C3_LoadFailureFatal ==
  loadFailed => /\ model = None
                /\ \A r \in Requests : req[r].status # 200

\* C4: an upload read with fewer than 1000 bytes is answered 400 "Audio file
\* too short" with no decoding and no inference; an upload read with 1000
\* bytes or more reaches the decoding step.
C4_RawBoundary ==
  \A r \in Requests :
    LET q == req[r] IN
    /\ (q.rawLen # Unset /\ q.rawLen < 1000) =>
         /\ q.pc = "done" /\ q.status = 400
         /\ q.detail = "Audio file too short"
         /\ ~q.decoded /\ ~q.inferred /\ q.encCalls = 0
    /\ (q.rawLen # Unset /\ q.rawLen >= 1000) => q.decoded

\* one upload of exactly 999 bytes was rejected and one of exactly 1000 bytes
\* was decoded
C4_Witness ==
  \E r1, r2 \in Requests :
    /\ req[r1].rawLen = 999 /\ req[r1].status = 400
    /\ req[r2].rawLen = 1000 /\ req[r2].decoded

\* C5: an upload decoded to fewer than 1600 samples is answered 400 and the
\* encoder is not invoked for it; one decoded to 1600 samples or more reaches
\* inference.
C5_SampleBoundary ==
  \A r \in Requests :
    LET q == req[r] IN
    /\ (q.samples # Unset /\ q.samples < 1600) =>
         /\ q.pc = "done" /\ q.status = 400
         /\ ~q.inferred /\ q.encCalls = 0
    /\ (q.samples # Unset /\ q.samples >= 1600) => q.inferred

\* one upload decoded to exactly 1599 samples was rejected and one decoded to
\* exactly 1600 samples reached inference
C5_Witness ==
  \E r1, r2 \in Requests :
    /\ req[r1].samples = 1599 /\ req[r1].status = 400
    /\ req[r2].samples = 1600 /\ req[r2].inferred

\* C6: when decoding an upload of at least 1000 bytes fails, the answer is
\* 400 with a detail string, never 500, and the encoder is not invoked.
C6_DecodeFailureIs400 ==
  \A r \in Requests :
    LET q == req[r] IN
    (q.decoded /\ q.samples = Unset) =>
      /\ q.rawLen >= 1000
      /\ q.pc = "done" /\ q.status = 400 /\ q.detail # ""
      /\ ~q.inferred /\ q.encCalls = 0

\* a decode attempt failed
C6_Witness ==
  \E r \in Requests :
    req[r].decoded /\ req[r].samples = Unset /\ req[r].pc = "done"

\* C7: a request that reached inference is answered 200 or 500, a request
\* whose inference failed is answered 500, and the encoder is invoked at
\* most once per request.
C7_InferenceFailureIs500 ==
  \A r \in Requests :
    LET q == req[r] IN
    /\ q.encCalls <= 1
    /\ (q.inferred /\ q.pc = "done") => q.status \in {200, 500}
    /\ (q.inferred /\ q.pc = "done" /\ q.vecLen = Unset) => q.status = 500

\* the forward pass failed on an input that passed all validation
C7_Witness ==
  \E r \in Requests :
    /\ req[r].inferred /\ req[r].encCalls = 1
    /\ req[r].vecLen = Unset /\ req[r].status = 500

\* C8: every /health call answers {status: "ok", embedding_dim: 768} and
\* leaves the processor and model handles and the load counts unchanged.
C8_HealthReadOnly ==
  [][healthCalls' # healthCalls =>
       /\ healthResp' = [status |-> "ok", embedding_dim |-> 768]
       /\ processor' = processor
       /\ model' = model
       /\ procLoads' = procLoads
       /\ encLoads' = encLoads]_vars

\* /health has answered while the service is Uninitialized, after an /embed
\* call
C8_Witness ==
  /\ healthCalls > 0 /\ model = None /\ processor = None
  /\ \E r \in Requests : req[r].pc = "done"

\* C9: every 200 answer of /embed carries 768 elements and dim = 768, the
\* value /health reports.
C9_Dim768 ==
  \A r \in Requests :
    req[r].status = 200 =>
      /\ req[r].vecLen = 768
      /\ req[r].dim = 768
      /\ req[r].dim = EMBEDDING_DIM

\* two 200 answers for clips of different native sample rate and duration
C9_Witness ==
  \E r1, r2 \in Requests :
    /\ req[r1].status = 200 /\ req[r1].origSr = 16000
    /\ req[r2].status = 200 /\ req[r2].origSr = 44100
    /\ req[r1].samples # req[r2].samples

\* C10: a set model handle implies a set processor handle, and a request
\* that reached inference used a set processor and a set model.
C10_ProcessorBeforeModel ==
  /\ model # None => processor # None
  /\ \A r \in Requests :
       req[r].inferred => req[r].usedProcessor # None /\ req[r].usedModel # None

\* a request reached inference after an earlier load had failed
C10_Witness ==
  /\ loadFailed
  /\ \E r \in Requests : req[r].inferred /\ req[r].status = 200

====
